---------------------------- MODULE Spec2Model ----------------------------
(***************************************************************************)
(* Model of src/app.py: the AudioService behind POST /transcrever and      *)
(* POST /remover-silencio.                                                 *)
(*                                                                         *)
(* Each request is a coroutine on one asyncio event loop.  A coroutine     *)
(* keeps the loop from one await to the next; the only await of a handler  *)
(* is `await file.read()`.  `running` is the coroutine that holds the      *)
(* loop, 0 when the loop is free.  The external libraries (requests,       *)
(* pydub, whisper) are nondeterministic choices over what they can return  *)
(* or raise.  The filesystem is the set fs of existing scratch paths.      *)
(*                                                                         *)
(* Durations are milliseconds.  Minutes are kept in hundredths (the        *)
(* response value 1.08 is the integer 108): round(x, 2) of a double is the *)
(* double nearest to a multiple of 0.01, which its hundredths identify.    *)
(***************************************************************************)
EXTENDS Integers, Sequences, FiniteSets, TLC

(***************************************************************************)
(* Bounds of the model.                                                    *)
(***************************************************************************)
\* coroutines that can be in flight at once
MaxInFlight == 2
\* requests that arrive in one behaviour
MaxRequests == 2
\* SpecConv converts the durations 0, 100, ..., 100 * MaxDurationStep ms
MaxDurationStep == 1000

Reqs == 1..MaxInFlight

ModelNames == {"base", "small"}

\* file: File(None) or an UploadFile; url: Query(None), "?url=" or a URL
FileInputs == {"None", "UploadFile"}
UrlInputs == {"None", "", "http://host/a.wav"}

\* len(audio_full) of the clips the handlers' behaviours decode
DecodedDurations == {900, 90000}

ConvDurations == {100 * k : k \in 0..MaxDurationStep}

\* a local variable that no assignment has bound yet
Unbound == -1

\* an exception: its class, HTTPException's status_code and detail, and
\* __context__, the class of the exception that was being handled when it
\* was raised
NoExc == [type |-> "none", status_code |-> 0, detail |-> "", context |-> "none"]

HTTPException(code, text) ==
    [type |-> "HTTPException", status_code |-> code, detail |-> text,
     context |-> "none"]

\* an exception of a library or of the interpreter; it carries no HTTP status
Raised(t, during) ==
    [type |-> t, status_code |-> 0, detail |-> "", context |-> during]

(***************************************************************************)
(* IEEE-754 binary64 division and Python's round(x, 2).                    *)
(* A double is [m, e]: m its significand as a sequence of bits, most       *)
(* significant first, e the weight of the last bit; the value is           *)
(* ToInt(m) * 2^e.  Integers stay below 2^31 throughout.                   *)
(***************************************************************************)
Precision == 53

RECURSIVE Bits(_)
Bits(n) == IF n = 0 THEN <<>> ELSE Append(Bits(n \div 2), n % 2)

RECURSIVE ToIntFrom(_, _, _)
ToIntFrom(bits, i, acc) ==
    IF acc >= 0 /\ i > Len(bits) THEN acc
    ELSE ToIntFrom(bits, i + 1, 2 * acc + bits[i])

ToInt(bits) == ToIntFrom(bits, 1, 0)

RECURSIVE AllZero(_, _)
AllZero(bits, from) ==
    from > Len(bits) \/ (bits[from] = 0 /\ AllZero(bits, from + 1))

RECURSIVE Increment(_)
Increment(bits) ==
    IF bits = <<>> THEN <<1>>
    ELSE IF bits[Len(bits)] = 0
         THEN Append(SubSeq(bits, 1, Len(bits) - 1), 1)
         ELSE Append(Increment(SubSeq(bits, 1, Len(bits) - 1)), 0)

RECURSIVE Zeros(_)
Zeros(n) == IF n <= 0 THEN <<>> ELSE Append(Zeros(n - 1), 0)

FloatZero == [m |-> <<>>, e |-> 0]

\* int -> float is exact below 2^53
FloatOfInt(n) == [m |-> Bits(n), e |-> 0]

DividendBit(D, i) == IF i <= Len(D) THEN D[i] ELSE 0

\* round to nearest, ties to even, on the guard bit and the sticky rest
RoundMantissa(acc, e, guard, sticky) ==
    IF guard = 1 /\ (sticky \/ acc[Len(acc)] = 1)
    THEN LET up == Increment(acc)
         IN IF Len(up) > Precision
            THEN [m |-> SubSeq(up, 1, Precision), e |-> e + 1]
            ELSE [m |-> up, e |-> e]
    ELSE [m |-> acc, e |-> e]

\* binary long division of ToInt(D) * 2^eD by d: the quotient's first
\* Precision bits from its leading 1, then the rounding
RECURSIVE LongDiv(_, _, _, _, _, _)
LongDiv(D, eD, d, i, r, acc) ==
    LET t == 2 * r + DividendBit(D, i)
        q == t \div d
        rr == t % d
    IN IF Len(acc) = Precision
       THEN RoundMantissa(acc, eD + Len(D) - (i - 1), q,
                          rr # 0 \/ ~AllZero(D, i + 1))
       ELSE IF acc = <<>> /\ q = 0
            THEN LongDiv(D, eD, d, i + 1, rr, acc)
            ELSE LongDiv(D, eD, d, i + 1, rr, Append(acc, q))

\* x / d in binary64, d a small positive integer
FloatDiv(x, d) ==
    IF AllZero(x.m, 1) THEN FloatZero ELSE LongDiv(x.m, x.e, d, 1, 0, <<>>)

\* bits * k, exactly
RECURSIVE MulSmall(_, _, _, _, _)
MulSmall(bits, k, i, carry, acc) ==
    IF carry >= 0 /\ Len(acc) >= 0 /\ i = 0 THEN Bits(carry) \o acc
    ELSE LET t == bits[i] * k + carry
         IN MulSmall(bits, k, i - 1, t \div 2, <<t % 2>> \o acc)

\* the integer nearest to ToInt(padded) / 2^s, ties to even
RoundShifted(padded, s) ==
    LET n == Len(padded)
        whole == ToInt(SubSeq(padded, 1, n - s))
        half == padded[n - s + 1]
        rest == ~AllZero(padded, n - s + 2)
    IN IF half = 1 /\ (rest \/ whole % 2 = 1) THEN whole + 1 ELSE whole

\* round(x, 2) in hundredths: CPython rounds the double's exact value
\* correctly (ties to even), 0 <= x < 2^52
PyRound2(x) ==
    IF x.m = <<>> THEN 0
    ELSE LET P == MulSmall(x.m, 100, Len(x.m), 0, <<>>)
         IN RoundShifted(Zeros(1 - x.e - Len(P)) \o P, 0 - x.e)

\* the conversion with the division by 60.0 left out: seconds, not minutes
MsToMinNoSixty(ms) == PyRound2(FloatDiv(FloatOfInt(ms), 1000))

\* round(ms / 1000.0 / 60.0, 2), in hundredths of a minute
MsToMin(ms) == PyRound2(FloatDiv(FloatDiv(FloatOfInt(ms), 1000), 60))

(***************************************************************************)
(* State.                                                                  *)
(***************************************************************************)
VARIABLES
    pc,                   \* each coroutine's position in its handler
    running,              \* the coroutine that holds the event loop, or 0
    arrivals,             \* requests that have arrived so far
    endpoint,             \* "transcrever" or "remover-silencio"
    file, url,            \* the request's inputs
    model_name,
    remove_silencio,
    original_temp_file,   \* locals of the handler
    original_duration_ms,
    chunks,               \* the span lengths split_on_silence returned
    processed_duration_ms,
    processed_file,
    model,
    resultado,            \* what model.transcribe returned
    exc,                  \* the exception in flight, then the one raised
    response,             \* what the handler returned
    fs,                   \* the scratch files that exist
    nextPath,             \* tempfile's next fresh name
    created,              \* the scratch files each request has created
    fetched,              \* whether the request has started requests.get
    models,               \* AudioService._models
    loadCount,            \* handles whisper.load_model has returned, by name
    loading,              \* the handle load_model returned, not yet stored
    nextHandle,           \* the next fresh model handle
    sawUnloaded           \* the model was not loaded when the request came

reqVars == <<endpoint, file, url, model_name, remove_silencio>>
localVars == <<original_temp_file, original_duration_ms, chunks,
               processed_duration_ms, processed_file, model, resultado>>
fileVars == <<fs, nextPath, created>>
modelVars == <<models, loadCount, loading, nextHandle>>
vars == <<pc, running, arrivals, reqVars, localVars, exc, response,
          fileVars, fetched, modelVars, sawUnloaded>>

\* the text model.transcribe returns is fixed by the model and the file:
\* it is kept as that pair
NoResult == [model |-> Unbound, path |-> Unbound]

NoResponse == [status |-> 0, transcricao |-> NoResult,
               duracao_original_min |-> 0, duracao_processada_min |-> 0,
               path |-> Unbound]

Init ==
    /\ pc = [r \in Reqs |-> "idle"]
    /\ running = 0
    /\ arrivals = 0
    /\ endpoint = [r \in Reqs |-> "transcrever"]
    /\ file = [r \in Reqs |-> "None"]
    /\ url = [r \in Reqs |-> "None"]
    /\ model_name = [r \in Reqs |-> "base"]
    /\ remove_silencio = [r \in Reqs |-> TRUE]
    /\ original_temp_file = [r \in Reqs |-> Unbound]
    /\ original_duration_ms = [r \in Reqs |-> Unbound]
    /\ chunks = [r \in Reqs |-> <<>>]
    /\ processed_duration_ms = [r \in Reqs |-> Unbound]
    /\ processed_file = [r \in Reqs |-> Unbound]
    /\ model = [r \in Reqs |-> Unbound]
    /\ resultado = [r \in Reqs |-> NoResult]
    /\ exc = [r \in Reqs |-> NoExc]
    /\ response = [r \in Reqs |-> NoResponse]
    /\ fs = {}
    /\ nextPath = 1
    /\ created = [r \in Reqs |-> {}]
    /\ fetched = [r \in Reqs |-> FALSE]
    /\ models = [m \in {} |-> Unbound]
    /\ loadCount = [m \in ModelNames |-> 0]
    /\ loading = [r \in Reqs |-> Unbound]
    /\ nextHandle = 1
    /\ sawUnloaded = [r \in Reqs |-> FALSE]

(***************************************************************************)
(* The event loop.                                                         *)
(***************************************************************************)
\* a coroutine gives the loop back only where it awaits or ends
SuspendsAnywhere(p) == TRUE

Suspends(p) == p \in {"awaitRead", "sending", "done"}

CanRun(r) == running = 0 \/ running = r

\* r moves to position p, and keeps or releases the loop
Goto(r, p) ==
    /\ CanRun(r)
    /\ pc' = [pc EXCEPT ![r] = p]
    /\ running' = IF Suspends(p) THEN 0 ELSE r

\* raise e out of the handler
Raise(r, e) ==
    /\ Goto(r, "done")
    /\ exc' = [exc EXCEPT ![r] = e]

\* the handler has returned or raised: its frame, with its locals, is gone
EndFrame(r) ==
    /\ original_temp_file' = [original_temp_file EXCEPT ![r] = Unbound]
    /\ original_duration_ms' = [original_duration_ms EXCEPT ![r] = Unbound]
    /\ chunks' = [chunks EXCEPT ![r] = <<>>]
    /\ processed_duration_ms' = [processed_duration_ms EXCEPT ![r] = Unbound]
    /\ processed_file' = [processed_file EXCEPT ![r] = Unbound]
    /\ model' = [model EXCEPT ![r] = Unbound]
    /\ resultado' = [resultado EXCEPT ![r] = NoResult]

\* raise e inside the try block: the finally clause runs next
RaiseInTry(r, e) ==
    /\ Goto(r, "finally")
    /\ exc' = [exc EXCEPT ![r] = e]

\* tempfile.NamedTemporaryFile(delete=False): a fresh file that stays
NamedTemporaryFile(r) ==
    /\ fs' = fs \cup {nextPath}
    /\ created' = [created EXCEPT ![r] = @ \cup {nextPath}]
    /\ nextPath' = nextPath + 1

\* Python's truth value of a parameter: None and "" are false
Truthy(v) == v \notin {"None", ""}

Transcrever(r) == endpoint[r] = "transcrever"

\* whether the handler runs the silence removal
Trims(r) == ~Transcrever(r) \/ remove_silencio[r]

(***************************************************************************)
(* A request arrives: the endpoint wrapper calls the service method.  A    *)
(* slot whose request has ended takes the next request.                    *)
(***************************************************************************)
Arrive(r) ==
    /\ pc[r] \in {"idle", "done"}
    /\ running = 0
    /\ arrivals < MaxRequests
    /\ arrivals' = arrivals + 1
    /\ \E e \in {"transcrever", "remover-silencio"}, f \in FileInputs,
          u \in UrlInputs, m \in ModelNames, s \in BOOLEAN :
        /\ e = "remover-silencio" => (m = "base" /\ s = TRUE)
        /\ endpoint' = [endpoint EXCEPT ![r] = e]
        /\ file' = [file EXCEPT ![r] = f]
        /\ url' = [url EXCEPT ![r] = u]
        /\ model_name' = [model_name EXCEPT ![r] = m]
        /\ remove_silencio' = [remove_silencio EXCEPT ![r] = s]
        /\ sawUnloaded' = [sawUnloaded EXCEPT ![r] =
                              e = "transcrever" /\ m \notin DOMAIN models]
    /\ pc' = [pc EXCEPT ![r] = "validate"]
    /\ EndFrame(r)
    /\ exc' = [exc EXCEPT ![r] = NoExc]
    /\ response' = [response EXCEPT ![r] = NoResponse]
    /\ created' = [created EXCEPT ![r] = {}]
    /\ fetched' = [fetched EXCEPT ![r] = FALSE]
    /\ loading' = [loading EXCEPT ![r] = Unbound]
    /\ UNCHANGED <<running, fs, nextPath, models, loadCount, nextHandle>>

(***************************************************************************)
(* Input validation, the same in both handlers.  The messages are the      *)
(* source's, without their accents.                                        *)
(***************************************************************************)
\* `if not file and not url`
BothMissing(f, u) == ~Truthy(f) /\ ~Truthy(u)

\* the second test left out
BothGivenNever(f, u) == FALSE

\* `if file and url`
BothGiven(f, u) == Truthy(f) /\ Truthy(u)

Validate(r) ==
    /\ pc[r] = "validate"
    /\ IF BothMissing(file[r], url[r])
       THEN Raise(r, HTTPException(400,
                     "Envie um arquivo ou uma URL de audio/video."))
       ELSE IF BothGiven(file[r], url[r])
       THEN Raise(r, HTTPException(400,
                     "Envie apenas um tipo de entrada (arquivo OU URL)."))
       ELSE Goto(r, "acquire") /\ UNCHANGED exc
    /\ UNCHANGED <<arrivals, reqVars, localVars, response, fileVars, fetched,
                   modelVars, sawUnloaded>>

(***************************************************************************)
(* Source acquisition.                                                     *)
(***************************************************************************)
\* `if file:` the scratch file is created, then the handler awaits the body
SaveUpload(r) ==
    /\ pc[r] = "acquire"
    /\ Truthy(file[r])
    /\ NamedTemporaryFile(r)
    /\ Goto(r, "awaitRead")
    /\ UNCHANGED <<arrivals, reqVars, localVars, exc, response, fetched,
                   modelVars, sawUnloaded>>

\* the body has been read: it is written and the path is kept
ReadUpload(r) ==
    /\ pc[r] = "awaitRead"
    /\ original_temp_file' = [original_temp_file EXCEPT ![r] =
                                 CHOOSE p \in created[r] : TRUE]
    /\ Goto(r, "decode")
    /\ UNCHANGED <<arrivals, reqVars, original_duration_ms, chunks,
                   processed_duration_ms, processed_file, model, resultado,
                   exc, response, fileVars, fetched, modelVars, sawUnloaded>>

\* `else:` _download_file: requests.get raises, or answers with a status
Fetch(r) ==
    /\ pc[r] = "acquire"
    /\ ~Truthy(file[r])
    /\ fetched' = [fetched EXCEPT ![r] = TRUE]
    /\ \/ Raise(r, Raised("ConnectionError", "none"))
       \/ \E status_code \in {200, 404} :
            IF status_code # 200
            THEN Raise(r, HTTPException(400, "Erro ao baixar o arquivo."))
            ELSE Goto(r, "stream") /\ UNCHANGED exc
    /\ UNCHANGED <<arrivals, reqVars, localVars, response, fileVars,
                   modelVars, sawUnloaded>>

\* _download_file: the scratch file is created and the body streamed to it
StreamToDisk(r) ==
    /\ pc[r] = "stream"
    /\ NamedTemporaryFile(r)
    /\ \/ /\ original_temp_file' = [original_temp_file EXCEPT ![r] = nextPath]
          /\ Goto(r, "decode")
          /\ UNCHANGED exc
       \/ /\ Raise(r, Raised("ChunkedEncodingError", "none"))
          /\ UNCHANGED original_temp_file
    /\ UNCHANGED <<arrivals, reqVars, original_duration_ms, chunks,
                   processed_duration_ms, processed_file, model, resultado,
                   response, fetched, modelVars, sawUnloaded>>

(***************************************************************************)
(* The try block: decoding, silence removal, export.                       *)
(***************************************************************************)
\* AudioSegment.from_file and len(): a duration, or the decoder raises
Decode(r) ==
    /\ pc[r] = "decode"
    /\ \/ \E d \in DecodedDurations :
            /\ original_duration_ms' = [original_duration_ms EXCEPT ![r] = d]
            /\ Goto(r, IF Trims(r) THEN "split" ELSE "skipTrim")
            /\ UNCHANGED exc
       \/ /\ RaiseInTry(r, Raised("CouldntDecodeError", "none"))
          /\ UNCHANGED original_duration_ms
    /\ UNCHANGED <<arrivals, reqVars, original_temp_file, chunks,
                   processed_duration_ms, processed_file, model, resultado,
                   response, fileVars, fetched, modelVars, sawUnloaded>>

\* what split_on_silence can return for a clip of d ms: no span (the clip
\* is silent throughout), the whole clip, or two spans around a gap
SplitOnSilence(d) == {<<>>, <<d>>, <<d \div 3, d \div 3>>}

Split(r) ==
    /\ pc[r] = "split"
    /\ \/ \E c \in SplitOnSilence(original_duration_ms[r]) :
            /\ chunks' = [chunks EXCEPT ![r] = c]
            /\ Goto(r, "sum")
            /\ UNCHANGED exc
       \/ /\ RaiseInTry(r, Raised("SegmentationError", "none"))
          /\ UNCHANGED chunks
    /\ UNCHANGED <<arrivals, reqVars, original_temp_file, original_duration_ms,
                   processed_duration_ms, processed_file, model, resultado,
                   response, fileVars, fetched, modelVars, sawUnloaded>>

RECURSIVE TotalMs(_)
TotalMs(c) == IF c = <<>> THEN 0 ELSE Head(c) + TotalMs(Tail(c))

\* sum(chunks) starts from the int 0: of no chunk it is the int 0, of some
\* chunks it is their concatenation (AudioSegment.__radd__ absorbs the 0)
PySum(c) ==
    IF c = <<>> THEN [type |-> "int", ms |-> 0]
    ELSE [type |-> "AudioSegment", ms |-> TotalMs(c)]

\* len() is defined on an AudioSegment and not on an int
HasLen(x) == x.type = "AudioSegment"

\* processed_audio = sum(chunks); processed_duration_ms = len(processed_audio)
SumChunks(r) ==
    /\ pc[r] = "sum"
    /\ LET processed_audio == PySum(chunks[r])
       IN IF HasLen(processed_audio)
          THEN /\ processed_duration_ms' =
                     [processed_duration_ms EXCEPT ![r] = processed_audio.ms]
               /\ Goto(r, "export")
               /\ UNCHANGED exc
          ELSE /\ RaiseInTry(r, Raised("TypeError", "none"))
               /\ UNCHANGED processed_duration_ms
    /\ UNCHANGED <<arrivals, reqVars, original_temp_file, original_duration_ms,
                   chunks, processed_file, model, resultado, response,
                   fileVars, fetched, modelVars, sawUnloaded>>

\* the output scratch file is created, then export writes it or raises;
\* processed_file is bound only after the export
Export(r) ==
    /\ pc[r] = "export"
    /\ NamedTemporaryFile(r)
    /\ \/ /\ processed_file' = [processed_file EXCEPT ![r] = nextPath]
          /\ Goto(r, IF Transcrever(r) THEN "loadCheck" ELSE "finally")
          /\ UNCHANGED exc
       \/ /\ RaiseInTry(r, Raised("ExportError", "none"))
          /\ UNCHANGED processed_file
    /\ UNCHANGED <<arrivals, reqVars, original_temp_file, original_duration_ms,
                   chunks, processed_duration_ms, model, resultado, response,
                   fetched, modelVars, sawUnloaded>>

\* the else branch with the duration left at zero
SkipTrimZeroDuration(r) ==
    /\ pc[r] = "skipTrim"
    /\ processed_file' = [processed_file EXCEPT ![r] = original_temp_file[r]]
    /\ processed_duration_ms' = [processed_duration_ms EXCEPT ![r] = 0]
    /\ Goto(r, "loadCheck")
    /\ UNCHANGED <<arrivals, reqVars, original_temp_file, original_duration_ms,
                   chunks, model, resultado, exc, response, fileVars,
                   fetched, modelVars, sawUnloaded>>

\* remove_silencio is false: the original file and duration are the result
SkipTrim(r) ==
    /\ pc[r] = "skipTrim"
    /\ processed_file' = [processed_file EXCEPT ![r] = original_temp_file[r]]
    /\ processed_duration_ms' =
           [processed_duration_ms EXCEPT ![r] = original_duration_ms[r]]
    /\ Goto(r, "loadCheck")
    /\ UNCHANGED <<arrivals, reqVars, original_temp_file, original_duration_ms,
                   chunks, model, resultado, exc, response, fileVars,
                   fetched, modelVars, sawUnloaded>>

(***************************************************************************)
(* _load_whisper_model and the transcription.                              *)
(***************************************************************************)
\* the cache is never consulted
ModelCachedNever(m) == FALSE

\* `model_name in self._models`
ModelCached(m) == m \in DOMAIN models

LoadCheck(r) ==
    /\ pc[r] = "loadCheck"
    /\ Goto(r, IF ModelCached(model_name[r]) THEN "loadReturn" ELSE "loadCall")
    /\ UNCHANGED <<arrivals, reqVars, localVars, exc, response, fileVars,
                   fetched, modelVars, sawUnloaded>>

\* whisper.load_model(model_name): a fresh handle, or it raises
LoadCall(r) ==
    /\ pc[r] = "loadCall"
    /\ \/ /\ loading' = [loading EXCEPT ![r] = nextHandle]
          /\ nextHandle' = nextHandle + 1
          /\ loadCount' = [loadCount EXCEPT ![model_name[r]] = @ + 1]
          /\ Goto(r, "loadStore")
          /\ UNCHANGED exc
       \/ /\ RaiseInTry(r, Raised("RuntimeError", "none"))
          /\ UNCHANGED <<loading, nextHandle, loadCount>>
    /\ UNCHANGED <<arrivals, reqVars, localVars, response, fileVars, fetched,
                   models, sawUnloaded>>

\* self._models[model_name] = <the handle>
LoadStore(r) ==
    /\ pc[r] = "loadStore"
    /\ models' = (model_name[r] :> loading[r]) @@ models
    /\ loading' = [loading EXCEPT ![r] = Unbound]
    /\ Goto(r, "loadReturn")
    /\ UNCHANGED <<arrivals, reqVars, localVars, exc, response, fileVars,
                   fetched, loadCount, nextHandle, sawUnloaded>>

\* return self._models[model_name]
LoadReturn(r) ==
    /\ pc[r] = "loadReturn"
    /\ model' = [model EXCEPT ![r] = models[model_name[r]]]
    /\ Goto(r, "transcribe")
    /\ UNCHANGED <<arrivals, reqVars, original_temp_file, original_duration_ms,
                   chunks, processed_duration_ms, processed_file, resultado,
                   exc, response, fileVars, fetched, modelVars, sawUnloaded>>

\* resultado = model.transcribe(processed_file), or it raises
Transcribe(r) ==
    /\ pc[r] = "transcribe"
    /\ \/ /\ resultado' = [resultado EXCEPT ![r] =
                 [model |-> model[r], path |-> processed_file[r]]]
          /\ Goto(r, "finally")
          /\ UNCHANGED exc
       \/ /\ RaiseInTry(r, Raised("TranscriptionError", "none"))
          /\ UNCHANGED resultado
    /\ UNCHANGED <<arrivals, reqVars, original_temp_file, original_duration_ms,
                   chunks, processed_duration_ms, processed_file, model,
                   response, fileVars, fetched, modelVars, sawUnloaded>>

(***************************************************************************)
(* The finally clauses, and the responses.                                 *)
(***************************************************************************)
\* os.path.exists(p) and os.remove(p)
RemoveIfExists(files, p) == files \ {p}

\* transcrever_audio: the original file is removed; the test on
\* processed_file reads the local, which is unbound when a step before its
\* assignment raised; then the pending exception, if any, is raised again
FinallyTranscrever(r) ==
    /\ pc[r] = "finally"
    /\ Transcrever(r)
    /\ LET afterOriginal == RemoveIfExists(fs, original_temp_file[r])
       IN IF remove_silencio[r] /\ processed_file[r] = Unbound
          THEN /\ fs' = afterOriginal
               /\ Raise(r, Raised("UnboundLocalError", exc[r].type))
               /\ EndFrame(r)
          ELSE /\ fs' = IF /\ remove_silencio[r]
                           /\ processed_file[r] # original_temp_file[r]
                        THEN RemoveIfExists(afterOriginal, processed_file[r])
                        ELSE afterOriginal
               /\ IF exc[r] # NoExc
                  THEN Goto(r, "done") /\ EndFrame(r)
                  ELSE Goto(r, "convert") /\ UNCHANGED localVars
               /\ UNCHANGED exc
    /\ UNCHANGED <<arrivals, reqVars, response, nextPath, created,
                   fetched, modelVars, sawUnloaded>>

\* remover_silencio: only the original file is removed
FinallyRemover(r) ==
    /\ pc[r] = "finally"
    /\ ~Transcrever(r)
    /\ fs' = RemoveIfExists(fs, original_temp_file[r])
    /\ IF exc[r] # NoExc
       THEN Goto(r, "done") /\ EndFrame(r)
       ELSE Goto(r, "respond") /\ UNCHANGED localVars
    /\ UNCHANGED <<arrivals, reqVars, exc, response, nextPath,
                   created, fetched, modelVars, sawUnloaded>>

\* transcrever_audio: both durations are converted and the dict returned
Convert(r) ==
    /\ pc[r] = "convert"
    /\ response' = [response EXCEPT ![r] =
           [status |-> 200,
            transcricao |-> resultado[r],
            duracao_original_min |-> MsToMin(original_duration_ms[r]),
            duracao_processada_min |-> MsToMin(processed_duration_ms[r]),
            path |-> Unbound]]
    /\ Goto(r, "done")
    /\ EndFrame(r)
    /\ UNCHANGED <<arrivals, reqVars, exc, fileVars, fetched,
                   modelVars, sawUnloaded>>

\* remover_silencio: the FileResponse on processed_file is returned; the
\* durations travel as millisecond headers, which the record's duration
\* fields hold here
Respond(r) ==
    /\ pc[r] = "respond"
    /\ response' = [response EXCEPT ![r] =
           [status |-> 200,
            transcricao |-> NoResult,
            duracao_original_min |-> original_duration_ms[r],
            duracao_processada_min |-> processed_duration_ms[r],
            path |-> processed_file[r]]]
    /\ Goto(r, "sending")
    /\ EndFrame(r)
    /\ UNCHANGED <<arrivals, reqVars, exc, fileVars, fetched,
                   modelVars, sawUnloaded>>

\* the framework sends the file of the FileResponse; nothing removes it
SendFile(r) ==
    /\ pc[r] = "sending"
    /\ response[r].path \in fs
    /\ Goto(r, "done")
    /\ UNCHANGED <<arrivals, reqVars, localVars, exc, response, fileVars,
                   fetched, modelVars, sawUnloaded>>

(***************************************************************************)
(* Specifications.                                                         *)
(***************************************************************************)
Next ==
    \E r \in Reqs :
        \/ Arrive(r)
        \/ Validate(r)
        \/ SaveUpload(r)
        \/ ReadUpload(r)
        \/ Fetch(r)
        \/ StreamToDisk(r)
        \/ Decode(r)
        \/ Split(r)
        \/ SumChunks(r)
        \/ Export(r)
        \/ SkipTrim(r)
        \/ LoadCheck(r)
        \/ LoadCall(r)
        \/ LoadStore(r)
        \/ LoadReturn(r)
        \/ Transcribe(r)
        \/ FinallyTranscrever(r)
        \/ FinallyRemover(r)
        \/ Convert(r)
        \/ Respond(r)
        \/ SendFile(r)

Spec == Init /\ [][Next]_vars

\* The conversion of lines 112-120 over many durations: request 1 is a
\* /transcrever upload that has left its finally clause without an error.
InitConv ==
    /\ pc = [r \in Reqs |-> IF r = 1 THEN "convert" ELSE "idle"]
    /\ running = 1
    /\ arrivals = 1
    /\ endpoint = [r \in Reqs |-> "transcrever"]
    /\ file = [r \in Reqs |-> IF r = 1 THEN "UploadFile" ELSE "None"]
    /\ url = [r \in Reqs |-> "None"]
    /\ model_name = [r \in Reqs |-> "base"]
    /\ original_temp_file = [r \in Reqs |-> IF r = 1 THEN 1 ELSE Unbound]
    /\ \E d \in ConvDurations, s \in BOOLEAN :
         \E c \in (IF s THEN SplitOnSilence(d) \ {<<>>} ELSE {<<>>}) :
           /\ remove_silencio = [r \in Reqs |-> r # 1 \/ s]
           /\ original_duration_ms = [r \in Reqs |-> IF r = 1 THEN d ELSE Unbound]
           /\ chunks = [r \in Reqs |-> IF r = 1 THEN c ELSE <<>>]
           /\ processed_duration_ms =
                  [r \in Reqs |-> IF r # 1 THEN Unbound
                                  ELSE IF s THEN TotalMs(c) ELSE d]
           /\ processed_file = [r \in Reqs |-> IF r # 1 THEN Unbound
                                               ELSE IF s THEN 2 ELSE 1]
           /\ created = [r \in Reqs |-> IF r # 1 THEN {}
                                        ELSE IF s THEN {1, 2} ELSE {1}]
           /\ nextPath = IF s THEN 3 ELSE 2
           /\ resultado = [r \in Reqs |->
                  IF r # 1 THEN NoResult
                  ELSE [model |-> 1, path |-> IF s THEN 2 ELSE 1]]
    /\ model = [r \in Reqs |-> IF r = 1 THEN 1 ELSE Unbound]
    /\ exc = [r \in Reqs |-> NoExc]
    /\ response = [r \in Reqs |-> NoResponse]
    /\ fs = {}
    /\ fetched = [r \in Reqs |-> FALSE]
    /\ models = ("base" :> 1)
    /\ loadCount = [m \in ModelNames |-> IF m = "base" THEN 1 ELSE 0]
    /\ loading = [r \in Reqs |-> Unbound]
    /\ nextHandle = 2
    /\ sawUnloaded = [r \in Reqs |-> r = 1]

NextConv == \E r \in Reqs : Convert(r)

SpecConv == InitConv /\ [][NextConv]_vars

(***************************************************************************)
(* Properties.                                                             *)
(***************************************************************************)
Done(r) == pc[r] = "done"

\* the request supplied x: a file was uploaded, a non-empty URL was given
Given(x) == x # "None" /\ x # ""

ExactlyOne(r) == Given(file[r]) # Given(url[r])

\* the handler ended before its try block: the validation or the fetch ended it
EndedBeforeTry(r) ==
    exc[r].type \in {"HTTPException", "ConnectionError", "ChunkedEncodingError"}

\* the scratch files of request r that still exist
Leftover(r) == created[r] \cap fs

\* C1: once transcrever_audio has returned or raised, whatever the outcome
\* of decoding, segmentation, export, model loading and transcription, no
\* scratch file the request created exists any more.
C1_TranscreverLeavesNoScratchFile ==
    \A r \in Reqs :
        (Transcrever(r) /\ Done(r) /\ ~EndedBeforeTry(r)) => Leftover(r) = {}

\* C2: once remover_silencio has answered and the response has been sent,
\* or decoding, segmentation or export has failed, neither the original
\* scratch file nor the trimmed WAV file of the request exists any more.
C2_RemoverLeavesNoScratchFile ==
    \A r \in Reqs :
        (~Transcrever(r) /\ Done(r) /\ ~EndedBeforeTry(r)) => Leftover(r) = {}

ValidationDetails ==
    {"Envie um arquivo ou uma URL de audio/video.",
     "Envie apenas um tipo de entrada (arquivo OU URL)."}

\* C3: at both endpoints a request with both a file and a url, or with
\* neither, never gets past the validation: it creates no scratch file,
\* starts no fetch, and ends with HTTPException 400 carrying one of the two
\* validation messages; a request with exactly one of them never ends with
\* a validation message.
C3_ExactlyOneInputOrRejectedFirst ==
    \A r \in Reqs :
        pc[r] # "idle" =>
            /\ ~ExactlyOne(r) =>
                  /\ pc[r] \in {"validate", "done"}
                  /\ created[r] = {}
                  /\ ~fetched[r]
                  /\ Done(r) =>
                        /\ exc[r].type = "HTTPException"
                        /\ exc[r].status_code = 400
                        /\ exc[r].detail \in ValidationDetails
            /\ ExactlyOne(r) => exc[r].detail \notin ValidationDetails

\* both shapes of invalid request have been rejected, one with both inputs
\* and one with neither
C3_Witness ==
    \E r, q \in Reqs :
        /\ Done(r) /\ Given(file[r]) /\ Given(url[r])
        /\ exc[r].status_code = 400
        /\ Done(q) /\ ~Given(file[q]) /\ ~Given(url[q])
        /\ exc[q].status_code = 400

Succeeded(r) == Done(r) /\ response[r].status = 200

\* C4: whisper.load_model returns at most one handle per model name, and two
\* /transcrever requests for the same name that both succeed were both
\* transcribed by that one handle, however the two handlers interleave.
C4_ConcurrentRequestsLoadOnce ==
    /\ \A m \in ModelNames : loadCount[m] <= 1
    /\ \A r, q \in Reqs :
          (/\ r # q
           /\ Transcrever(r) /\ Transcrever(q)
           /\ Succeeded(r) /\ Succeeded(q)
           /\ model_name[r] = model_name[q])
          => /\ loadCount[model_name[r]] = 1
             /\ response[r].transcricao.model = models[model_name[r]]
             /\ response[q].transcricao.model = models[model_name[r]]

\* two requests for one model name, both arrived before it was loaded (so
\* both were in flight when it was), have both been answered
C4_Witness ==
    \E r, q \in Reqs :
        /\ r # q
        /\ Transcrever(r) /\ Transcrever(q)
        /\ Succeeded(r) /\ Succeeded(q)
        /\ model_name[r] = model_name[q]
        /\ sawUnloaded[r] /\ sawUnloaded[q]

\* C5: in every step, for every model name: a call loads only while the
\* name has no entry and returns the stored handle; an entry that exists is
\* neither removed nor replaced, and is not loaded again; an entry appears
\* only as the handle a load for that name returned.
C5_CacheLoadsOnceAndKeeps ==
    [][\A m \in ModelNames :
          /\ m \in DOMAIN models =>
                /\ m \in DOMAIN models'
                /\ models'[m] = models[m]
                /\ loadCount'[m] = loadCount[m]
          /\ (m \notin DOMAIN models /\ m \in DOMAIN models') =>
                \E r \in Reqs :
                    /\ pc[r] = "loadStore" /\ model_name[r] = m
                    /\ models'[m] = loading[r]
                    /\ loadCount[m] = 1
          /\ \A r \in Reqs :
                (model_name[r] = m /\ model[r] = Unbound /\ model'[r] # Unbound)
                => (m \in DOMAIN models /\ model'[r] = models[m])
      ]_vars

\* a later call was served from the cache: the request came when the model
\* was loaded and was transcribed by the stored handle, loaded once
C5_Witness ==
    \E r \in Reqs :
        /\ Transcrever(r) /\ Succeeded(r)
        /\ ~sawUnloaded[r]
        /\ loadCount[model_name[r]] = 1
        /\ response[r].transcricao.model = models[model_name[r]]

\* C6: with remove_silencio false, transcrever_audio never runs the silence
\* segmentation, creates no scratch file besides the original, transcribes
\* the original scratch file, and returns duracao_processada_min equal to
\* duracao_original_min.
C6_NoTrimKeepsFileAndDuration ==
    \A r \in Reqs :
        (Transcrever(r) /\ ~remove_silencio[r] /\ pc[r] # "idle") =>
            /\ pc[r] \notin {"split", "sum", "export"}
            /\ chunks[r] = <<>>
            /\ Cardinality(created[r]) <= 1
            /\ resultado[r] # NoResult =>
                  resultado[r].path = original_temp_file[r]
            /\ Succeeded(r) =>
                  /\ response[r].transcricao.path \in created[r]
                  /\ response[r].duracao_processada_min =
                         response[r].duracao_original_min

\* a request without silence removal has been answered, with a duration
C6_Witness ==
    \E r \in Reqs :
        /\ Transcrever(r) /\ ~remove_silencio[r] /\ Succeeded(r)
        /\ response[r].duracao_original_min > 0

\* the fetch of the request failed
FetchFailed(r) ==
    /\ Done(r)
    /\ fetched[r]
    /\ \/ exc[r].type \in {"ConnectionError", "ChunkedEncodingError"}
       \/ exc[r].detail = "Erro ao baixar o arquivo."

\* C7: a request whose URL fetch failed, by a non-success status or by an
\* error while connecting or streaming, ends with HTTPException 400 with a
\* detail, and none of its scratch files exists.
C7_FetchFailureIs400AndClean ==
    \A r \in Reqs :
        FetchFailed(r) =>
            /\ exc[r].type = "HTTPException"
            /\ exc[r].status_code = 400
            /\ exc[r].detail # ""
            /\ Leftover(r) = {}

\* C8: when split_on_silence has returned no span, the next step of either
\* handler raises nothing: it sets processed_duration_ms to 0 and goes on to
\* the export.
C8_ZeroSpansTrimToEmpty ==
    [][\A r \in Reqs :
          (pc[r] = "sum" /\ chunks[r] = <<>> /\ pc'[r] # "sum") =>
              /\ pc'[r] = "export"
              /\ exc'[r] = NoExc
              /\ processed_duration_ms'[r] = 0
      ]_vars

\* round(ms / 60000, 2): one correctly rounded division, in hundredths
RoundOfOneDivision(ms) == PyRound2(FloatDiv(FloatOfInt(ms), 60000))

\* ms / 60000 lies exactly midway between two hundredths
Midway(ms) == ms % 600 = 300

\* the hundredth nearest to ms / 60000, ms not midway
NearestHundredth(ms) == (ms + 300) \div 600

\* the handler of r returns its dict in this step
Returns(r) == pc[r] = "convert" /\ pc'[r] = "done"

\* C9 as stated: both returned durations equal round(ms / 60000, 2).
C9_ConversionIsRoundOfOneDivision ==
    [][\A r \in Reqs :
          Returns(r) =>
              /\ response'[r].duracao_original_min =
                     RoundOfOneDivision(original_duration_ms[r])
              /\ response'[r].duracao_processada_min =
                     RoundOfOneDivision(processed_duration_ms[r])
      ]_vars

\* what C9 holds of one duration and its converted value
ConvertedAsAmended(ms, min) ==
    /\ ~Midway(ms) => (min = NearestHundredth(ms) /\ min = RoundOfOneDivision(ms))
    /\ Midway(ms) => min \in {ms \div 600, ms \div 600 + 1}
    /\ ms = 90000 => min = 150
    /\ ms = 65000 => min = 108

\* C9, amended: both returned durations are round(ms / 1000.0 / 60.0, 2) in
\* double arithmetic; unless ms / 60000 is midway between two hundredths
\* (ms mod 600 = 300) that is the nearest hundredth and equals
\* round(ms / 60000, 2), so 90000 ms gives 1.5 and 65000 ms gives 1.08; when
\* it is midway, it is one of the two neighbouring hundredths; equal
\* durations convert to equal values.
C9_ConversionAmended ==
    [][\A r \in Reqs :
          Returns(r) =>
              /\ ConvertedAsAmended(original_duration_ms[r],
                                    response'[r].duracao_original_min)
              /\ ConvertedAsAmended(processed_duration_ms[r],
                                    response'[r].duracao_processada_min)
              /\ original_duration_ms[r] = processed_duration_ms[r] =>
                     response'[r].duracao_original_min =
                         response'[r].duracao_processada_min
      ]_vars

\* a clip of 65000 ms, none of it trimmed, has been answered with 1.08 twice
C9_Witness ==
    \E r \in Reqs :
        /\ Succeeded(r)
        /\ remove_silencio[r]
        /\ response[r].duracao_original_min = 108
        /\ response[r].duracao_processada_min = 108

\* C10: the error transcrever_audio raises is the error of the step that
\* failed: the finally clause raises none of its own while it handles one.
C10_CleanupRaisesNothing ==
    \A r \in Reqs :
        (Transcrever(r) /\ Done(r)) =>
            /\ exc[r].type # "UnboundLocalError"
            /\ exc[r].context = "none"

=============================================================================
